---- MODULE Spec2Model ----
(***************************************************************************)
(* Order analytics Lambda (serverless/analzyer/analyzer.py): year          *)
(* inference, comparison selection, the analysis pipeline with its two     *)
(* chart publishes, and the S3-triggered handler loop.                     *)
(*                                                                         *)
(* Money is counted in integer cents.  Dates are records (month token,     *)
(* day) before year inference and (month, day, year) after it.             *)
(***************************************************************************)
EXTENDS Integers, Sequences, FiniteSets, TLC

\* ------------------------------------------------------------------ bounds
MaxDates == 3          \* longest order list handed directly to add_years_to_orders
MaxChron == 3          \* longest reverse-chronological history that is built
MaxAmountSteps == 41000 \* amounts range over 0 .. MaxAmountSteps * AmountStep cents
AmountStep == 50       \* grid of the amounts, in cents
MaxOrders == 3         \* longest order list handed directly to analyze_orders
MaxSecond == 2         \* the seconds datetime.now() may show
MaxRecords == 2        \* most records in one event
MaxKeyLen == 5         \* longest key handed directly to extract_user_email_from_key
MaxRuns == 2           \* most runs of analyze_orders against one charts bucket

\* --------------------------------------------------------------- constants
DefaultCurrentYear == 2025   \* add_years_to_orders(current_year=2025)

\* Python's None where a record is expected, and "no exception" in a raised field.
None == [none |-> TRUE]
NoError == "none"

Range(s) == {s[i] : i \in DOMAIN s}

\* ------------------------------------------------------- add_years_to_orders
MonthAbbrs ==
    <<"Jan", "Feb", "Mar", "Apr", "May", "Jun",
      "Jul", "Aug", "Sep", "Oct", "Nov", "Dec">>

\* month_to_num: enumerate(..., start=1)
month_to_num == [m \in Range(MonthAbbrs) |-> CHOOSE i \in DOMAIN MonthAbbrs : MonthAbbrs[i] = m]

FirstHalf == {"Jan", "Feb", "Mar", "Apr", "May", "Jun"}

\* The month tokens that occur in input dates: the twelve abbreviations, a
\* differently cased spelling and a token that is no abbreviation.
MonthTokens == Range(MonthAbbrs) \cup {"dec", "Sept"}

\* str.title() on the tokens above: first letter upper, the rest lower.
Title(tok) ==
    IF tok = "dec" THEN "Dec" ELSE tok

\* The first year: current_year if the first month is Jan..Jun, else one less.
FirstYearSwapped(first_month, current_year) ==
    IF first_month \in FirstHalf THEN current_year - 1 ELSE current_year

FirstYear(first_month, current_year) ==
    IF first_month \in FirstHalf THEN current_year ELSE current_year - 1

\* `idx and month_num > prev_month_num`
WrapsLess(idx, month_num, prev_month_num) == idx > 1 /\ month_num < prev_month_num

WrapsGE(idx, month_num, prev_month_num) == idx > 1 /\ month_num >= prev_month_num

Wraps(idx, month_num, prev_month_num) == idx > 1 /\ month_num > prev_month_num

\* The body of the for loop, from position idx on (1-based here, 0-based in
\* the code).  The list is mutated in place, so a KeyError part-way leaves
\* the earlier orders with their year attached.
RECURSIVE AddYearsLoop(_, _, _, _)
AddYearsLoop(orders, idx, year, prev_month_num) ==
    IF idx > Len(orders)
    THEN [raised |-> NoError, orders |-> orders]
    ELSE LET month_abbr == Title(orders[idx].date.month)
         IN  IF month_abbr \notin DOMAIN month_to_num
             THEN [raised |-> "KeyError", orders |-> orders]
             ELSE LET month_num == month_to_num[month_abbr]
                      y == IF Wraps(idx, month_num, prev_month_num) THEN year - 1 ELSE year
                      dated == [month |-> month_abbr, day |-> orders[idx].date.day, year |-> y]
                  IN  AddYearsLoop([orders EXCEPT ![idx].date = dated], idx + 1, y, month_num)

\* A lookup of an unknown month that falls back to January instead of raising.
AddYearsDefaulting(orders, current_year) ==
    IF orders = << >>
    THEN [raised |-> NoError, orders |-> orders]
    ELSE [raised |-> NoError,
          orders |-> [i \in DOMAIN orders |->
                        [orders[i] EXCEPT !.date =
                            [month |-> IF Title(orders[i].date.month) \in DOMAIN month_to_num
                                       THEN Title(orders[i].date.month)
                                       ELSE "Jan",
                             day |-> orders[i].date.day,
                             year |-> current_year]]]]

add_years_to_orders(orders, current_year) ==
    IF orders = << >>
    THEN [raised |-> NoError, orders |-> orders]
    ELSE LET first_month == Title(orders[1].date.month)
         IN  IF first_month \notin DOMAIN month_to_num
             THEN [raised |-> "KeyError", orders |-> orders]
             ELSE AddYearsLoop(orders, 1, FirstYear(first_month, current_year),
                               month_to_num[first_month])

\* ------------------------------------------------------- get_best_comparison
\* The catalog in the iteration order of the dict literal: grocery, then
\* experience, then tech; prices in dollars.
comparisons ==
    << [category |-> "grocery",    price |-> 6,    name |-> "Starbucks lattes"],
       [category |-> "grocery",    price |-> 200,  name |-> "weeks of groceries"],
       [category |-> "grocery",    price |-> 800,  name |-> "months of groceries"],
       [category |-> "experience", price |-> 15,   name |-> "movie tickets"],
       [category |-> "experience", price |-> 80,   name |-> "nice dinners out"],
       [category |-> "experience", price |-> 600,  name |-> "weekend getaways"],
       [category |-> "experience", price |-> 2000, name |-> "week-long vacations"],
       [category |-> "tech",       price |-> 180,  name |-> "AirPods"],
       [category |-> "tech",       price |-> 400,  name |-> "Apple Watches"],
       [category |-> "tech",       price |-> 1000, name |-> "iPhones"],
       [category |-> "tech",       price |-> 1800, name |-> "MacBooks"] >>

\* Scores are kept as integers: every score is multiplied by ScoreScale, the
\* least common multiple of the prices (36000) times 100 cents.
ScoreScale == 3600000

\* `1 <= quantity <= 10`, quantity = amount / price, amount in cents.
InRangeUpTo5(amount, price) == price * 100 <= amount /\ amount <= 5 * price * 100

InRange(amount, price) == price * 100 <= amount /\ amount <= 10 * price * 100

\* category_bonus, times ScoreScale.
CategoryBonusFlat(category) == 0

CategoryBonus(category) ==
    CASE category = "experience" -> 0
      [] category = "tech" -> ScoreScale \div 2
      [] category = "grocery" -> ScoreScale

Abs(x) == IF x < 0 THEN -x ELSE x

\* score = abs(quantity - 3) + category_bonus, times ScoreScale.
Score(amount, d) ==
    Abs(amount * (36000 \div d.price) - 3 * ScoreScale) + CategoryBonus(d.category)

\* `score < best_score`; best_score starts at +inf (no best yet).
BetterOrEqual(score, best) == best = None \/ score <= best.score

Better(score, best) == best = None \/ score < best.score

\* num/den rounded to the nearest integer, ties to even (what the format
\* specs do with the exact quotient).
RoundHalfEven(num, den) ==
    LET q == num \div den
        r == num % den
    IN  IF 2 * r > den \/ (2 * r = den /\ q % 2 = 1) THEN q + 1 ELSE q

\* f'{x:.1f}' and f'{x:.0f}' of x = num/den: the rounded value in units of
\* 10^-decimals, with the number of decimals shown.
Fmt1(num, den) == [decimals |-> 1, value |-> RoundHalfEven(10 * num, den)]
Fmt0(num, den) == [decimals |-> 0, value |-> RoundHalfEven(num, den)]

\* f'{quantity:.1f}' if quantity < 10 else f'{quantity:.0f}'
FmtQuantity(amount, price) ==
    IF amount < 10 * price * 100
    THEN Fmt1(amount, price * 100)
    ELSE Fmt0(amount, price * 100)

\* The two nested for loops, from catalog position k on.  best is None or
\* [score, quantity, description]; score is the code's best_score.
RECURSIVE BestLoop(_, _, _)
BestLoop(amount, k, best) ==
    IF k > Len(comparisons)
    THEN best
    ELSE LET details == comparisons[k]
             score == Score(amount, details)
         IN  IF InRange(amount, details.price) /\ Better(score, best)
             THEN BestLoop(amount, k + 1,
                           [score |-> score,
                            quantity |-> FmtQuantity(amount, details.price),
                            description |-> details.name])
             ELSE BestLoop(amount, k + 1, best)

\* `if amount < 100`, in cents.
FallbackThreshold == 10000

\* The fallback branch taken the other way round.
FallbackSwapped(amount) ==
    IF amount < FallbackThreshold
    THEN [quantity |-> Fmt1(amount, 8000), description |-> "nice dinners out"]
    ELSE [quantity |-> Fmt0(amount, 400), description |-> "Starbucks lattes"]

Fallback(amount) ==
    IF amount < FallbackThreshold
    THEN [quantity |-> Fmt0(amount, 400), description |-> "Starbucks lattes"]
    ELSE [quantity |-> Fmt1(amount, 8000), description |-> "nice dinners out"]

get_best_comparison(amount) ==
    LET best == BestLoop(amount, 1, None)
    IN  IF best = None
        THEN Fallback(amount)
        ELSE [quantity |-> best.quantity, description |-> best.description]

\* ------------------------------------------------- analyze_orders: helpers
\* An order as it arrives: date "<Mon> <day>", time "<h>:00 <AM|PM>", total
\* "$<dollars>.<cents>" (held as the currency sign and the cents), canceled.
\* The total of a canceled order counted as nothing.
TotalValueUnlessCanceled(order) == IF order.canceled THEN 0 ELSE order.total.cents

\* total_value = pd.to_numeric(total.str.replace("$", "")), in cents.
TotalValue(order) == order.total.cents

\* The hour of pd.to_datetime(date + " " + time) for a 12-hour clock time.
Hour24(time) == (time.h % 12) + (IF time.half = "PM" THEN 12 ELSE 0)

\* ts: the instant of a dated order, as <<year, month, day, hour>>.
Ts(order) ==
    <<order.date.year, month_to_num[order.date.month], order.date.day, Hour24(order.time)>>

TsLE(a, b) ==
    \/ a[1] < b[1]
    \/ a[1] = b[1] /\ a[2] < b[2]
    \/ a[1] = b[1] /\ a[2] = b[2] /\ a[3] < b[3]
    \/ a[1] = b[1] /\ a[2] = b[2] /\ a[3] = b[3] /\ a[4] <= b[4]

\* .assign(total_value=..., ts=...)
Assigned(dated) ==
    [i \in DOMAIN dated |->
        [restaurantName |-> dated[i].restaurantName,
         date |-> dated[i].date,
         time |-> dated[i].time,
         total |-> dated[i].total,
         canceled |-> dated[i].canceled,
         total_value |-> TotalValue(dated[i]),
         ts |-> Ts(dated[i]),
         cum_value |-> 0]]

Perms(n) == {p \in [1..n -> 1..n] : \A i, j \in 1..n : p[i] = p[j] => i = j}

\* The row orders sort_values("ts", ascending=True) may produce: any order
\* that is ascending in ts (the default sort is not stable).
SortPerms(rows) ==
    {p \in Perms(Len(rows)) :
        \A i, j \in 1..Len(rows) : i < j => TsLE(rows[p[i]].ts, rows[p[j]].ts)}

SortBy(rows, p) == [i \in DOMAIN rows |-> rows[p[i]]]

\* cum_value = total_value.cumsum() (.ffill() has nothing to fill: no value
\* is missing).
RECURSIVE CumSumFrom(_, _, _)
CumSumFrom(rows, i, acc) ==
    IF i > Len(rows)
    THEN rows
    ELSE CumSumFrom([rows EXCEPT ![i].cum_value = acc + rows[i].total_value],
                    i + 1, acc + rows[i].total_value)

WithCum(rows) == CumSumFrom(rows, 1, 0)

\* The cumulative sum taken before the sort instead of after it.
FrameCumFirst(dated, p) == SortBy(WithCum(Assigned(dated)), p)

\* Lines 183-194: assign, sort by ts, then cumsum, reset_index.
Frame(dated, p) == WithCum(SortBy(Assigned(dated), p))

RECURSIVE SumTotal(_, _)
SumTotal(rows, i) ==
    IF i > Len(rows) THEN 0 ELSE rows[i].total_value + SumTotal(rows, i + 1)

\* df["total_value"].idxmax(): the first row holding the maximum.
IdxMax(rows) ==
    CHOOSE i \in DOMAIN rows :
        /\ \A j \in DOMAIN rows : rows[j].total_value <= rows[i].total_value
        /\ \A j \in 1..(i - 1) : rows[j].total_value < rows[i].total_value

\* The rows of a boolean column that hold True.
Count(column) == Cardinality({i \in DOMAIN column : column[i]})

\* value_counts().idxmax(): a value of highest count; which one among equal
\* counts is left to the library.
Modes(column) ==
    LET n(v) == Cardinality({i \in DOMAIN column : column[i] = v})
    IN  {column[k] : k \in {k \in DOMAIN column :
            \A j \in DOMAIN column : n(column[j]) <= n(column[k])}}

\* _hour_label: strftime("%-I%p")
hour_label(hour) ==
    [h |-> IF hour % 12 = 0 THEN 12 ELSE hour % 12,
     half |-> IF hour < 12 THEN "AM" ELSE "PM"]

\* ts.dt.day_name(): 0 = Sunday .. 6 = Saturday (Gregorian calendar).
DayOfWeek(ts) ==
    LET t == <<0, 3, 2, 5, 0, 3, 5, 1, 4, 6, 2, 4>>
        y == IF ts[2] < 3 THEN ts[1] - 1 ELSE ts[1]
    IN  (y + (y \div 4) - (y \div 100) + (y \div 400) + t[ts[2]] + ts[3]) % 7

DayNames == <<"Sunday", "Monday", "Tuesday", "Wednesday", "Thursday", "Friday", "Saturday">>
DayName(row) == DayNames[DayOfWeek(row.ts) + 1]
HourOf(row) == row.ts[4]
RestaurantOf(row) == row.restaurantName
IsCanceled(row) == row.canceled = TRUE

\* monthly_spend: df.groupby(ts.dt.to_period("M")).total_value.sum(), the
\* periods in ascending order.
PeriodOf(row) == <<row.ts[1], row.ts[2]>>
PeriodKey(pd) == pd[1] * 12 + pd[2]

RECURSIVE SortedPeriods(_)
SortedPeriods(S) ==
    IF S = {}
    THEN << >>
    ELSE LET lo == CHOOSE x \in S : \A y \in S : PeriodKey(x) <= PeriodKey(y)
         IN  <<lo>> \o SortedPeriods(S \ {lo})

RECURSIVE SumWhere(_, _, _)
SumWhere(rows, i, pd) ==
    IF i > Len(rows)
    THEN 0
    ELSE (IF PeriodOf(rows[i]) = pd THEN rows[i].total_value ELSE 0) + SumWhere(rows, i + 1, pd)

MonthlySpend(rows) ==
    LET ps == SortedPeriods({PeriodOf(rows[i]) : i \in DOMAIN rows})
    IN  [k \in DOMAIN ps |-> [period |-> ps[k], total_value |-> SumWhere(rows, 1, ps[k])]]

\* Lines 198-211, for one choice of the three modes.
Kpis(rows, top_hour, top_day, top_restaurant) ==
    [total_orders |-> Len(rows),
     total_spent |-> SumTotal(rows, 1),
     largest_order |-> [total_value |-> rows[IdxMax(rows)].total_value,
                        restaurantName |-> rows[IdxMax(rows)].restaurantName,
                        date |-> rows[IdxMax(rows)].date],
     top_hour |-> hour_label(top_hour),
     top_day |-> top_day,
     canceled_orders |-> Count([i \in DOMAIN rows |-> IsCanceled(rows[i])]),
     top_restaurant |-> top_restaurant,
     top_restaurant_count |-> Cardinality({i \in DOMAIN rows : rows[i].restaurantName = top_restaurant}),
     avg_order_value |-> [num |-> SumTotal(rows, 1), den |-> Len(rows)],
     comparison |-> get_best_comparison(SumTotal(rows, 1))]

\* ------------------------------------------------------ upload_chart_to_s3
ChartsBucket == "ubereats-orders-bucket"

\* A key built from the timestamp alone.
ChartKeyWithoutName(chart_name, timestamp) == <<"charts", timestamp>>

\* Line 149: f"charts/{timestamp}_{chart_name}_chart.png"
chart_key(chart_name, timestamp) == <<"charts", timestamp, chart_name>>

\* A failed publish handed on as if it had produced a URL.
UploadIgnoringFailure(chart_name, timestamp, put_ok) ==
    [bucket |-> ChartsBucket, key |-> chart_key(chart_name, timestamp)]

\* The URL of the object on success; None when savefig or put_object raised
\* (the except clause catches every Exception).
upload_chart_to_s3(chart_name, timestamp, put_ok) ==
    IF put_ok
    THEN [bucket |-> ChartsBucket, key |-> chart_key(chart_name, timestamp)]
    ELSE None

\* ------------------------------------------------------- the composed report
NoOrdersDoc == [kind |-> "no_orders"]

\* Both chart slots rendered as images whatever the URLs are.
ChartSlotAlwaysImage(url, fallback) == [kind |-> "img", src |-> url]

\* Lines 479 and 483: `<img src=url>` if url else the fallback markup.
ChartSlot(url, fallback) ==
    IF url # None THEN [kind |-> "img", src |-> url] ELSE fallback

OrderTable(rows) ==
    [i \in DOMAIN rows |->
        [restaurantName |-> rows[i].restaurantName, date |-> rows[i].date,
         time |-> rows[i].time, total |-> rows[i].total]]

Report(rows, k, monthly, spending_url, cumulative_url) ==
    [kind |-> "report",
     cards |-> k,
     spending_slot |-> ChartSlot(spending_url, [kind |-> "monthly_table", rows |-> monthly]),
     cumulative_slot |-> ChartSlot(cumulative_url, [kind |-> "see_table_text"]),
     order_table |-> OrderTable(rows)]

\* The URLs a report shows images from.
ImageSources(r) ==
    {slot.src : slot \in {x \in {r.spending_slot, r.cumulative_slot} : x.kind = "img"}}

\* ----------------------------------------------------------- handler helpers
\* Strings the handler takes apart are sequences of one-character strings.
\* urllib.parse.unquote_plus: '+' becomes a space, %40 becomes '@'.
RECURSIVE unquote_plus(_)
unquote_plus(s) ==
    IF s = << >> THEN << >>
    ELSE IF s[1] = "+" THEN <<" ">> \o unquote_plus(Tail(s))
    ELSE IF Len(s) >= 3 /\ s[1] = "%" /\ s[2] = "4" /\ s[3] = "0"
         THEN <<"@">> \o unquote_plus(SubSeq(s, 4, Len(s)))
    ELSE <<s[1]>> \o unquote_plus(Tail(s))

\* str.lower() on the letters that occur in keys.
LowerChar(c) ==
    CASE c = "J" -> "j" [] c = "S" -> "s" [] c = "O" -> "o" [] c = "N" -> "n"
      [] OTHER -> c
Lower(s) == [i \in DOMAIN s |-> LowerChar(s[i])]

EndsWith(s, suffix) ==
    /\ Len(s) >= Len(suffix)
    /\ SubSeq(s, Len(s) - Len(suffix) + 1, Len(s)) = suffix

DotJson == <<".", "j", "s", "o", "n">>

\* The extension compared without lowering the key first.
IsJsonKeyCaseSensitive(source_key) == EndsWith(source_key, DotJson)

\* source_key.lower().endswith('.json')
IsJsonKey(source_key) == EndsWith(Lower(source_key), DotJson)

\* s3_key.split('/')
RECURSIVE SplitSlash(_, _)
SplitSlash(s, cur) ==
    IF s = << >> THEN <<cur>>
    ELSE IF s[1] = "/" THEN <<cur>> \o SplitSlash(Tail(s), << >>)
    ELSE SplitSlash(Tail(s), Append(cur, s[1]))

Contains(part, c) == \E i \in DOMAIN part : part[i] = c

Unknown == <<"u", "n", "k", "n", "o", "w", "n">>

\* The fallback taking the last segment instead of the one before it.
ExtractLastSegment(s3_key) ==
    LET parts == SplitSlash(s3_key, << >>)
        hits == {i \in DOMAIN parts : Contains(parts[i], "@") /\ Contains(parts[i], ".")}
    IN  IF hits # {}
        THEN parts[CHOOSE i \in hits : \A j \in hits : i <= j]
        ELSE IF Len(parts) > 1 THEN parts[Len(parts)] ELSE Unknown

extract_user_email_from_key(s3_key) ==
    LET parts == SplitSlash(s3_key, << >>)
        hits == {i \in DOMAIN parts : Contains(parts[i], "@") /\ Contains(parts[i], ".")}
    IN  IF hits # {}
        THEN parts[CHOOSE i \in hits : \A j \in hits : i <= j]
        ELSE IF Len(parts) > 1 THEN parts[Len(parts) - 1] ELSE Unknown

\* send_email: True only for a 2xx response; a missing configuration value,
\* an exception of the client and any other status give False.
SendEmailAlwaysTrue(sink) == TRUE

send_email(sink) == sink = "2xx"

\* ------------------------------------------------------------------- state
VARIABLES
    ay_orders,   \* argument of a direct call of add_years_to_orders
    ay_true,     \* the true year of each of ay_orders (history only; the code never sees it)
    ay_ret,      \* what the call returned or raised
    ay_pc,
    amount,      \* argument of a direct call of get_best_comparison, in cents
    cmp_ret,     \* what it returned
    cmp_pc,
    orders,      \* analyze_orders: its argument (add_years_to_orders mutates it in place)
    an_pc,       \* analyze_orders: where the call stands
    df,          \* the sorted frame with cum_value
    monthly_spend,
    kpi,         \* the values of lines 198-211
    timestamp,   \* datetime.now() to whole seconds
    spending_chart_url,
    cumulative_chart_url,
    an_ret,      \* the document analyze_orders returned
    ops,         \* what has been done for the record (or call) in progress, in order
    event_ok,    \* lambda_handler: the event can be logged and its Records iterated
    n_records,   \* how many records the event holds
    records,     \* the records of the event the loop has read so far
    outcome,     \* per record read: received, processing, or how it ended
    h_pc,        \* lambda_handler: where the invocation stands
    file_content, \* what get_object returned for the record in progress
    user_email,
    response,    \* what lambda_handler returned
    ex_key,      \* argument of a direct call of extract_user_email_from_key
    ex_ret,      \* what it returned
    ex_pc

ayVars == <<ay_orders, ay_true, ay_ret, ay_pc>>
cmpVars == <<amount, cmp_ret, cmp_pc>>
anVars == <<orders, an_pc, df, monthly_spend, kpi, timestamp,
            spending_chart_url, cumulative_chart_url, an_ret>>
hVars == <<event_ok, n_records, records, outcome, h_pc, file_content, user_email, response>>
exVars == <<ex_key, ex_ret, ex_pc>>
vars == <<ay_orders, ay_true, ay_ret, ay_pc, amount, cmp_ret, cmp_pc,
          orders, an_pc, df, monthly_spend, kpi, timestamp,
          spending_chart_url, cumulative_chart_url, an_ret, ops,
          event_ok, n_records, records, outcome, h_pc, file_content, user_email, response,
          ex_key, ex_ret, ex_pc>>

ayIdle == ay_orders = << >> /\ ay_true = << >> /\ ay_ret = None /\ ay_pc = "idle"
cmpIdle == amount = 0 /\ cmp_ret = None /\ cmp_pc = "idle"
anLocalsClear ==
    /\ df = << >> /\ monthly_spend = << >> /\ kpi = None /\ timestamp = 0
    /\ spending_chart_url = None /\ cumulative_chart_url = None /\ an_ret = None
anIdle == orders = << >> /\ an_pc = "idle" /\ anLocalsClear
hIdle ==
    /\ event_ok = TRUE /\ n_records = 0 /\ records = << >> /\ outcome = << >> /\ h_pc = "idle"
    /\ file_content = None /\ user_email = << >> /\ response = None
exIdle == ex_key = << >> /\ ex_ret = << >> /\ ex_pc = "idle"

\* The dates handed to direct calls: every token on two days, and "Dec 1".
DateDays == {5, 20}
RawDates == [month : MonthTokens, day : DateDays] \cup {[month |-> "Dec", day |-> 1]}
DateOrders == [date : RawDates]

SeqsUpTo(S, n) == UNION {[1..k -> S] : k \in 0..n}

\* --------------------------------------- direct calls of add_years_to_orders
CallAddYears ==
    /\ ay_pc = "call"
    /\ ay_ret' = add_years_to_orders(ay_orders, DefaultCurrentYear)
    /\ ay_pc' = "returned"
    /\ UNCHANGED <<ay_orders, ay_true, cmpVars, anVars, ops, hVars, exVars>>

\* A history that is reverse-chronological by construction: each order
\* appended is no later than the one before it.  The code is handed only
\* the month and the day; the true year stays in ay_true.
TrueYears == {DefaultCurrentYear - 1, DefaultCurrentYear}
ChronDays == {5, 20}

TrueDate(os, years, i) ==
    <<years[i], month_to_num[os[i].date.month], os[i].date.day>>

\* Lexicographic order on <<year, month, day>>.
DateLE(a, b) ==
    \/ a[1] < b[1]
    \/ a[1] = b[1] /\ a[2] < b[2]
    \/ a[1] = b[1] /\ a[2] = b[2] /\ a[3] <= b[3]

AppendOlder ==
    /\ ay_pc = "call"
    /\ Len(ay_orders) < MaxChron
    /\ \E y \in TrueYears, m \in Range(MonthAbbrs), d \in ChronDays :
          /\ IF ay_orders = << >>
             THEN TRUE
             ELSE DateLE(<<y, month_to_num[m], d>>,
                         TrueDate(ay_orders, ay_true, Len(ay_orders)))
          /\ ay_orders' = Append(ay_orders, [date |-> [month |-> m, day |-> d]])
          /\ ay_true' = Append(ay_true, y)
    /\ UNCHANGED <<ay_ret, ay_pc, cmpVars, anVars, ops, hVars, exVars>>

\* --------------------------------------- direct calls of get_best_comparison
\* The amounts a cent either side of the ends of the catalog's reach, $6.00
\* and $20,000.00.
EdgeAmounts == {599, 600, 601, 1999999, 2000000, 2000001}

Amounts == {AmountStep * k : k \in 0..MaxAmountSteps} \cup EdgeAmounts

CallGetBestComparison ==
    /\ cmp_pc = "call"
    /\ cmp_ret' = get_best_comparison(amount)
    /\ cmp_pc' = "returned"
    /\ UNCHANGED <<amount, ayVars, anVars, ops, hVars, exVars>>

\* ------------------------------------------------------------ analyze_orders
\* The record the steps are logged for: its position in the event, 0 for a
\* direct call.
Cur == Len(records)

Timestamps == 1..MaxSecond

\* The test left out: every list is taken as non-empty.
NeverEmpty(os) == FALSE

\* `not orders`
IsEmpty(os) == os = << >>

\* Lines 179-180: `if not orders: return ...`.
AnalyzeEntry ==
    /\ an_pc = "entry"
    /\ IF IsEmpty(orders)
       THEN an_ret' = NoOrdersDoc /\ an_pc' = "returned"
       ELSE an_ret' = an_ret /\ an_pc' = "frame"
    /\ UNCHANGED <<orders, df, monthly_spend, kpi, timestamp, spending_chart_url,
                   cumulative_chart_url, ops, ayVars, cmpVars, hVars, exVars>>

\* Lines 183-196: add years, build the frame, sort, cumulate, group by month.
BuildFrame ==
    /\ an_pc = "frame"
    /\ \E r \in {add_years_to_orders(orders, DefaultCurrentYear)} :
           /\ orders' = r.orders
           /\ ops' = Append(ops, [op |-> "add_years", rec |-> Cur, ok |-> r.raised = NoError])
           /\ IF r.raised # NoError
              THEN /\ an_pc' = "raised"
                   /\ UNCHANGED <<df, monthly_spend>>
              ELSE /\ an_pc' = "kpis"
                   /\ \E f \in {Frame(r.orders, p) : p \in SortPerms(Assigned(r.orders))} :
                         /\ df' = f
                         /\ monthly_spend' = MonthlySpend(f)
    /\ UNCHANGED <<kpi, timestamp, spending_chart_url, cumulative_chart_url, an_ret,
                   ayVars, cmpVars, hVars, exVars>>

\* Lines 198-211.
ComputeKpis ==
    /\ an_pc = "kpis"
    /\ \E top_hour \in Modes([i \in DOMAIN df |-> HourOf(df[i])]),
          top_day \in Modes([i \in DOMAIN df |-> DayName(df[i])]),
          top_restaurant \in Modes([i \in DOMAIN df |-> RestaurantOf(df[i])]) :
          kpi' = Kpis(df, top_hour, top_day, top_restaurant)
    /\ ops' = Append(ops, [op |-> "stats", rec |-> Cur, ok |-> TRUE])
    /\ an_pc' = "publish_spending"
    /\ UNCHANGED <<orders, df, monthly_spend, timestamp, spending_chart_url,
                   cumulative_chart_url, an_ret, ayVars, cmpVars, hVars, exVars>>

\* The cumulative chart published where the spending chart belongs.
PublishCumulativeFirst ==
    /\ an_pc = "publish_spending"
    /\ \E t \in Timestamps, put_ok \in BOOLEAN :
          /\ timestamp' = t
          /\ spending_chart_url' = upload_chart_to_s3("cumulative", t, put_ok)
          /\ ops' = Append(ops, [op |-> "publish_cumulative", rec |-> Cur, ok |-> put_ok,
                                 second |-> t, key |-> chart_key("cumulative", t)])
    /\ an_pc' = "publish_cumulative"
    /\ UNCHANGED <<orders, df, monthly_spend, kpi, cumulative_chart_url, an_ret,
                   ayVars, cmpVars, hVars, exVars>>

\* Lines 245-249: take the timestamp, publish the spending chart.
PublishSpending ==
    /\ an_pc = "publish_spending"
    /\ \E t \in Timestamps, put_ok \in BOOLEAN :
          /\ timestamp' = t
          /\ spending_chart_url' = upload_chart_to_s3("spending", t, put_ok)
          /\ ops' = Append(ops, [op |-> "publish_spending", rec |-> Cur, ok |-> put_ok,
                                 second |-> t, key |-> chart_key("spending", t)])
    /\ an_pc' = "publish_cumulative"
    /\ UNCHANGED <<orders, df, monthly_spend, kpi, cumulative_chart_url, an_ret,
                   ayVars, cmpVars, hVars, exVars>>

\* Lines 283-284.
PublishCumulative ==
    /\ an_pc = "publish_cumulative"
    /\ \E put_ok \in BOOLEAN :
          /\ cumulative_chart_url' = upload_chart_to_s3("cumulative", timestamp, put_ok)
          /\ ops' = Append(ops, [op |-> "publish_cumulative", rec |-> Cur, ok |-> put_ok,
                                 second |-> timestamp,
                                 key |-> chart_key("cumulative", timestamp)])
    /\ an_pc' = "compose"
    /\ UNCHANGED <<orders, df, monthly_spend, kpi, timestamp, spending_chart_url, an_ret,
                   ayVars, cmpVars, hVars, exVars>>

\* Lines 286-493.
Compose ==
    /\ an_pc = "compose"
    /\ \E r \in {Report(df, kpi, monthly_spend, spending_chart_url, cumulative_chart_url)} :
          /\ an_ret' = r
          /\ ops' = Append(ops, [op |-> "report", rec |-> Cur, ok |-> TRUE,
                                 srcs |-> ImageSources(r)])
    /\ an_pc' = "returned"
    /\ UNCHANGED <<orders, df, monthly_spend, kpi, timestamp, spending_chart_url,
                   cumulative_chart_url, ayVars, cmpVars, hVars, exVars>>

AnalyzeStep ==
    \/ AnalyzeEntry
    \/ BuildFrame
    \/ ComputeKpis
    \/ PublishSpending
    \/ PublishCumulative
    \/ Compose

\* ------------------------------------------------------------ specifications
YearsInit ==
    /\ ay_orders \in SeqsUpTo(DateOrders, MaxDates)
    /\ ay_true = << >>
    /\ ay_ret = None
    /\ ay_pc = "call"
    /\ cmpIdle /\ anIdle /\ hIdle /\ ops = << >> /\ exIdle

YearsNext == CallAddYears

SpecYears == YearsInit /\ [][YearsNext]_vars

ChronInit ==
    /\ ay_orders = << >>
    /\ ay_true = << >>
    /\ ay_ret = None
    /\ ay_pc = "call"
    /\ cmpIdle /\ anIdle /\ hIdle /\ ops = << >> /\ exIdle

ChronNext == AppendOlder \/ CallAddYears

SpecChron == ChronInit /\ [][ChronNext]_vars

CompareInit ==
    /\ amount \in Amounts
    /\ cmp_ret = None
    /\ cmp_pc = "call"
    /\ ayIdle /\ anIdle /\ hIdle /\ ops = << >> /\ exIdle

CompareNext == CallGetBestComparison

SpecCompare == CompareInit /\ [][CompareNext]_vars

\* Direct calls of extract_user_email_from_key on any key over these
\* characters.
KeyChars == {"a", "@", ".", "/"}
KeyStrings == SeqsUpTo(KeyChars, MaxKeyLen)

CallExtract ==
    /\ ex_pc = "call"
    /\ ex_ret' = extract_user_email_from_key(ex_key)
    /\ ex_pc' = "returned"
    /\ UNCHANGED <<ex_key, ayVars, cmpVars, anVars, ops, hVars>>

ExtractInit ==
    /\ ex_key \in KeyStrings
    /\ ex_ret = << >>
    /\ ex_pc = "call"
    /\ ayIdle /\ cmpIdle /\ anIdle /\ hIdle /\ ops = << >>

ExtractNext == CallExtract

SpecExtract == ExtractInit /\ [][ExtractNext]_vars

\* Direct calls of analyze_orders.
OrderJun1 ==
    [restaurantName |-> "A", date |-> [month |-> "Jun", day |-> 1],
     time |-> [h |-> 6, half |-> "PM"], total |-> [sign |-> "$", cents |-> 2000],
     canceled |-> FALSE]
OrderMay1 ==
    [restaurantName |-> "B", date |-> [month |-> "May", day |-> 1],
     time |-> [h |-> 1, half |-> "PM"], total |-> [sign |-> "$", cents |-> 1000],
     canceled |-> FALSE]
OrderJan5 ==
    [restaurantName |-> "B", date |-> [month |-> "Jan", day |-> 5],
     time |-> [h |-> 10, half |-> "PM"], total |-> [sign |-> "$", cents |-> 0],
     canceled |-> TRUE]
OrderDec20 ==
    [restaurantName |-> "A", date |-> [month |-> "dec", day |-> 20],
     time |-> [h |-> 12, half |-> "AM"], total |-> [sign |-> "$", cents |-> 2550],
     canceled |-> FALSE]
OrderDec20Canceled ==
    [restaurantName |-> "C", date |-> [month |-> "Dec", day |-> 20],
     time |-> [h |-> 12, half |-> "AM"], total |-> [sign |-> "$", cents |-> 1000],
     canceled |-> TRUE]
OrderDec1 ==
    [restaurantName |-> "B", date |-> [month |-> "Dec", day |-> 1],
     time |-> [h |-> 10, half |-> "PM"], total |-> [sign |-> "$", cents |-> 1500],
     canceled |-> FALSE]
OrderSept3 ==
    [restaurantName |-> "C", date |-> [month |-> "Sept", day |-> 3],
     time |-> [h |-> 9, half |-> "AM"], total |-> [sign |-> "$", cents |-> 500],
     canceled |-> FALSE]

SampleOrders ==
    {OrderJun1, OrderMay1, OrderJan5, OrderDec20, OrderDec20Canceled, OrderDec1,
     OrderSept3}

\* ------------------------------------------------------------ lambda_handler
\* Keys as they arrive in the notification (URL-escaped).
KeyEmailJson == <<"u", "%", "4", "0", "x", ".", "y", "/", "o", ".", "j", "s", "o", "n">>
KeyPlainJson == <<"a", "/", "o", ".", "J", "S", "O", "N">>
KeyBareJson == <<"o", ".", "j", "s", "o", "n">>
KeyCsv == <<"u", "@", "x", ".", "y", "/", "o", ".", "c", "s", "v">>
Keys == {KeyEmailJson, KeyPlainJson, KeyBareJson, KeyCsv}

\* A record of the event: an S3 record with bucket name and object key, an
\* S3 record that lacks one of them, or a record of another source.
RecordKinds ==
    {[eventSource |-> "aws:s3", has_s3 |-> TRUE, key |-> k] : k \in Keys}
    \cup {[eventSource |-> "aws:s3", has_s3 |-> FALSE, key |-> << >>],
          [eventSource |-> "aws:sns", has_s3 |-> FALSE, key |-> << >>]}

\* What json.loads may give: a scalar, an object without `orders`, an object
\* whose `orders` is null (has no len), an object with an order list, a list.
OrdersData(lists) ==
    {[type |-> "scalar", has_orders |-> FALSE, sized |-> FALSE, orders |-> << >>],
     [type |-> "dict", has_orders |-> FALSE, sized |-> FALSE, orders |-> << >>],
     [type |-> "dict", has_orders |-> TRUE, sized |-> FALSE, orders |-> << >>]}
    \cup {[type |-> "dict", has_orders |-> TRUE, sized |-> TRUE, orders |-> l] : l \in lists}
    \cup {[type |-> "list", has_orders |-> FALSE, sized |-> TRUE, orders |-> l] : l \in lists}

FileContents(lists) ==
    {[valid |-> FALSE, data |-> None]}
    \cup {[valid |-> TRUE, data |-> d] : d \in OrdersData(lists)}

GetObjectErrors == {"ClientError", "UnicodeDecodeError"}

\* What get_object, read and decode end in: an exception or the text.
GetObjectResults(lists) ==
    {[raised |-> e, body |-> None] : e \in GetObjectErrors}
    \cup {[raised |-> NoError, body |-> c] : c \in FileContents(lists)}

EmailSinks == {"2xx", "3xx", "raises", "no_config"}

Processing == [end |-> "processing", why |-> "", level |-> "info"]
Ended(end, why, level) == [end |-> end, why |-> why, level |-> level]

Terminal == {"sent", "skipped", "failed"}

SetOutcome(o) == outcome' = [outcome EXCEPT ![Len(outcome)] = o]

ClearLocals ==
    /\ orders' = << >> /\ an_pc' = "idle" /\ df' = << >> /\ monthly_spend' = << >>
    /\ kpi' = None /\ timestamp' = 0 /\ spending_chart_url' = None
    /\ cumulative_chart_url' = None /\ an_ret' = None
    /\ file_content' = None
    /\ ops' = << >>

\* The exception handed back to the caller instead of being answered.
TopLevelReraise(error) == [escaped |-> error]

\* Lines 619-624: the outer `except Exception` answers with a 500.
TopLevelExcept(error) == [statusCode |-> 500, body |-> error]

\* Lines 614-617.
Completed == [statusCode |-> 200, body |-> "Uber Eats analysis completed successfully"]

\* Lines 542-546: log the event, read event['Records'].  An event that cannot
\* be dumped as JSON or has no iterable Records raises here.
Start ==
    /\ h_pc = "start"
    /\ IF event_ok
       THEN h_pc' = "loop" /\ response' = response
       ELSE h_pc' = "done" /\ response' = TopLevelExcept("Error: TypeError")
    /\ UNCHANGED <<event_ok, n_records, records, outcome, file_content, user_email, ops,
                   ayVars, cmpVars, anVars, exVars>>

\* Lines 550-551 are outside the inner try: a record without
\* s3.bucket.name or s3.object.key raises a KeyError that leaves the loop.
Escapes(r) == r.eventSource = "aws:s3" /\ ~r.has_s3

\* A record whose key names no email address skipped like a wrong extension.
BeginOutcomeSkippingUnidentified(r) ==
    IF r.eventSource # "aws:s3" THEN Ended("skipped", "not_s3", "none")
    ELSE IF ~r.has_s3 THEN Ended("failed", "KeyError", "error")
    ELSE IF ~IsJsonKey(unquote_plus(r.key)) THEN Ended("skipped", "not_json", "info")
    ELSE IF \A i \in DOMAIN unquote_plus(r.key) : unquote_plus(r.key)[i] # "@"
         THEN Ended("skipped", "not_json", "info")
    ELSE Processing

\* Lines 548-558 for one record: how it stands when the checks are through.
BeginOutcome(r) ==
    IF r.eventSource # "aws:s3" THEN Ended("skipped", "not_s3", "none")
    ELSE IF ~r.has_s3 THEN Ended("failed", "KeyError", "error")
    ELSE IF ~IsJsonKey(unquote_plus(r.key)) THEN Ended("skipped", "not_json", "info")
    ELSE Processing

\* Lines 546-562: the loop takes the next record.  The locals of the previous
\* iteration are dead (each is assigned before it is read) and are cleared.
BeginRecord ==
    /\ h_pc = "loop"
    /\ Len(records) < n_records
    /\ \E r \in RecordKinds :
          /\ records' = Append(records, r)
          /\ outcome' = Append(outcome, BeginOutcome(r))
          /\ IF Escapes(r)
             THEN h_pc' = "done" /\ response' = TopLevelExcept("Error: KeyError")
             ELSE /\ response' = response
                  /\ h_pc' = IF BeginOutcome(r) = Processing THEN "fetch" ELSE "loop"
          /\ ClearLocals
          /\ user_email' = IF BeginOutcome(r) = Processing
                            THEN extract_user_email_from_key(unquote_plus(r.key))
                            ELSE << >>
    /\ UNCHANGED <<event_ok, n_records, ayVars, cmpVars, exVars>>

\* Lines 546 and 614-617: the loop is through.
ReturnOK ==
    /\ h_pc = "loop"
    /\ Len(records) = n_records
    /\ response' = Completed
    /\ h_pc' = "done"
    /\ UNCHANGED <<event_ok, n_records, records, outcome, file_content, user_email, ops,
                   ayVars, cmpVars, anVars, exVars>>

\* The order lists the fetched files hold.
HandlerOrderLists ==
    { << >>,
      <<OrderJun1>>,
      <<OrderJan5, OrderDec1>>,
      <<OrderJun1, OrderSept3>>,
      <<OrderSept3>> }

\* Lines 566-567: get_object, read, decode.
GetObject ==
    /\ h_pc = "fetch"
    /\ \E res \in GetObjectResults(HandlerOrderLists) :
          /\ ops' = Append(ops, [op |-> "fetch", rec |-> Cur, ok |-> res.raised = NoError])
          /\ IF res.raised # NoError
             THEN /\ SetOutcome(Ended("failed", res.raised, "error"))
                  /\ h_pc' = "loop"
                  /\ UNCHANGED file_content
             ELSE /\ file_content' = res.body
                  /\ h_pc' = "parse"
                  /\ UNCHANGED outcome
    /\ UNCHANGED <<event_ok, n_records, records, user_email, response, ayVars, cmpVars, anVars, exVars>>

\* The shape test that accepts a bare list only.
ParseEndListOnly(content) ==
    IF ~content.valid THEN Ended("failed", "JSONDecodeError", "error")
    ELSE IF content.data.type # "list" THEN Ended("failed", "json_shape", "error")
    ELSE IF ~content.data.sized THEN Ended("failed", "TypeError", "error")
    ELSE IF content.data.orders = << >> THEN Ended("skipped", "empty", "warning")
    ELSE Processing

\* Lines 570-585: json.loads, the shape test, len(orders), `if not orders`.
ParseEnd(content) ==
    IF ~content.valid THEN Ended("failed", "JSONDecodeError", "error")
    ELSE IF ~(content.data.type = "dict" /\ content.data.has_orders)
            /\ content.data.type # "list"
         THEN Ended("failed", "json_shape", "error")
    ELSE IF ~content.data.sized THEN Ended("failed", "TypeError", "error")
    ELSE IF IsEmpty(content.data.orders) THEN Ended("skipped", "empty", "warning")
    ELSE Processing

ParseOrders ==
    /\ h_pc = "parse"
    /\ ops' = Append(ops, [op |-> "parse", rec |-> Cur, ok |-> file_content.valid])
    /\ SetOutcome(ParseEnd(file_content))
    /\ IF ParseEnd(file_content) = Processing
       THEN /\ orders' = file_content.data.orders
            /\ an_pc' = "entry"
            /\ h_pc' = "analyze"
       ELSE /\ h_pc' = "loop"
            /\ UNCHANGED <<orders, an_pc>>
    /\ UNCHANGED <<event_ok, n_records, records, file_content, user_email, response,
                   df, monthly_spend, kpi, timestamp, spending_chart_url,
                   cumulative_chart_url, an_ret, ayVars, cmpVars, exVars>>

\* analyze_orders raised: the `except Exception` of lines 610-612.
AnalysisRaised ==
    /\ h_pc = "analyze"
    /\ an_pc = "raised"
    /\ SetOutcome(Ended("failed", "analysis", "error"))
    /\ h_pc' = "loop"
    /\ UNCHANGED <<event_ok, n_records, records, file_content, user_email, response, ops,
                   ayVars, cmpVars, anVars, exVars>>

\* A send that is tried again after a False result.
SendEmailRetrying ==
    /\ h_pc = "analyze"
    /\ an_pc = "returned"
    /\ \E sink \in EmailSinks :
          /\ ops' = Append(ops, [op |-> "email", rec |-> Cur, ok |-> send_email(sink),
                                 to |-> user_email, content |-> an_ret])
          /\ IF send_email(sink)
             THEN SetOutcome(Ended("sent", sink, "info")) /\ h_pc' = "loop"
             ELSE UNCHANGED outcome /\ h_pc' = "analyze"
    /\ UNCHANGED <<event_ok, n_records, records, file_content, user_email, response,
                   ayVars, cmpVars, anVars, exVars>>

\* Lines 591-602: the email is sent once; a False result is logged.
SendEmail ==
    /\ h_pc = "analyze"
    /\ an_pc = "returned"
    /\ \E sink \in EmailSinks :
          /\ ops' = Append(ops, [op |-> "email", rec |-> Cur, ok |-> send_email(sink),
                                 to |-> user_email, content |-> an_ret])
          /\ SetOutcome(IF send_email(sink)
                        THEN Ended("sent", sink, "info")
                        ELSE Ended("failed", "email", "error"))
    /\ h_pc' = "loop"
    /\ UNCHANGED <<event_ok, n_records, records, file_content, user_email, response,
                   ayVars, cmpVars, anVars, exVars>>

Init ==
    /\ event_ok \in BOOLEAN
    /\ n_records \in (IF event_ok THEN 0..MaxRecords ELSE {0})
    /\ records = << >>
    /\ outcome = << >>
    /\ h_pc = "start"
    /\ file_content = None
    /\ user_email = << >>
    /\ response = None
    /\ ops = << >>
    /\ ayIdle /\ cmpIdle /\ anIdle
    /\ exIdle

Next ==
    \/ Start
    \/ BeginRecord
    \/ ReturnOK
    \/ GetObject
    \/ ParseOrders
    \/ AnalyzeStep
    \/ AnalysisRaised
    \/ SendEmail

Spec == Init /\ [][Next]_vars

AnalyzeInit ==
    /\ orders \in SeqsUpTo(SampleOrders, MaxOrders)
    /\ an_pc = "entry"
    /\ anLocalsClear
    /\ ops = << >>
    /\ ayIdle /\ cmpIdle /\ hIdle
    /\ exIdle

AnalyzeNext == AnalyzeStep

SpecAnalyze == AnalyzeInit /\ [][AnalyzeNext]_vars

\* Runs of analyze_orders one after the other against the same charts
\* bucket (the records of a batch, or invocations that follow each other);
\* ops keeps the steps of all of them.
RunOrderLists == {<<OrderJun1>>, <<OrderJan5, OrderDec1>>}

RunsReturned == Cardinality({k \in DOMAIN ops : ops[k].op = "report"})

NextRun ==
    /\ an_pc = "returned"
    /\ RunsReturned < MaxRuns
    /\ orders' \in RunOrderLists
    /\ an_pc' = "entry"
    /\ df' = << >> /\ monthly_spend' = << >> /\ kpi' = None /\ timestamp' = 0
    /\ spending_chart_url' = None /\ cumulative_chart_url' = None /\ an_ret' = None
    /\ UNCHANGED <<ops, ayVars, cmpVars, hVars, exVars>>

RunsInit ==
    /\ orders \in RunOrderLists
    /\ an_pc = "entry"
    /\ anLocalsClear
    /\ ops = << >>
    /\ ayIdle /\ cmpIdle /\ hIdle
    /\ exIdle

RunsNext == AnalyzeStep \/ NextRun

SpecRuns == RunsInit /\ [][RunsNext]_vars

\* ===================================================================== claims

\* ---------------------------------------------------------------------- C1
\* C1: a failure while processing record i, whatever step fails, does not
\* abort the batch: when the handler has returned, every record after a
\* failed one has been read and has reached sent, skipped or failed.
C1_FailureDoesNotAbortBatch ==
    h_pc = "done" =>
        \A i \in 1..Len(outcome) :
            outcome[i].end = "failed" =>
                \A j \in (i + 1)..n_records :
                    j <= Len(outcome) /\ outcome[j].end \in Terminal

\* ---------------------------------------------------------------------- C2
\* Steps still to go, at most: it falls with every step of the handler.
StageRank ==
    CASE h_pc = "done" -> 0
      [] h_pc = "loop" -> 1
      [] h_pc = "start" -> 2
      [] h_pc = "fetch" -> 12
      [] h_pc = "parse" -> 11
      [] h_pc = "analyze" ->
            (CASE an_pc = "entry" -> 10
               [] an_pc = "frame" -> 9
               [] an_pc = "kpis" -> 8
               [] an_pc = "publish_spending" -> 7
               [] an_pc = "publish_cumulative" -> 6
               [] an_pc = "compose" -> 5
               [] OTHER -> 4)
      [] OTHER -> 0

Measure == IF h_pc = "done" THEN 0 ELSE 12 * (n_records - Len(records)) + StageRank

RaisedOutsideRecordHandling ==
    \/ ~event_ok
    \/ records # << >> /\ outcome[Len(outcome)].why = "KeyError"

LoopRanToCompletion ==
    /\ event_ok
    /\ Len(records) = n_records
    /\ \A i \in 1..Len(outcome) : outcome[i].end \in Terminal /\ outcome[i].why # "KeyError"

\* Whatever the handler is at, its next step can be taken.
CanStep ==
    /\ h_pc = "start" => ENABLED Start
    /\ h_pc = "loop" => ENABLED BeginRecord \/ ENABLED ReturnOK
    /\ h_pc = "fetch" => ENABLED GetObject
    /\ h_pc = "parse" => ENABLED ParseOrders
    /\ h_pc = "analyze" => ENABLED AnalyzeStep \/ ENABLED AnalysisRaised \/ ENABLED SendEmail

C2_Returned ==
    /\ h_pc # "done" => response = None /\ CanStep
    /\ h_pc = "done" =>
        /\ "statusCode" \in DOMAIN response
        /\ response.statusCode \in {200, 500}
        /\ response.statusCode = 200 <=> LoopRanToCompletion
        /\ response.statusCode = 500 <=> RaisedOutsideRecordHandling

\* C2: lambda_handler lets no exception escape: every invocation goes on
\* until it returns (each step brings the return nearer), the result is 200
\* exactly when the record loop ran to completion, failed and skipped
\* records included, and 500 exactly when an error was raised outside the
\* per-record handling.
C2_AlwaysReturnsAResult == [](C2_Returned) /\ [][Measure' < Measure]_vars

C2_Witness ==
    /\ h_pc = "done"
    /\ response.statusCode = 200
    /\ Len(outcome) = 2
    /\ outcome[1].end = "failed"
    /\ outcome[2].end = "sent"

\* ---------------------------------------------------------------------- C3
FullDate(o) == <<o.date.year, month_to_num[o.date.month], o.date.day>>

NonIncreasing(os) ==
    \A i \in 1..(Len(os) - 1) : DateLE(FullDate(os[i + 1]), FullDate(os[i]))

YearMonthNonIncreasing(os) ==
    \A i \in 1..(Len(os) - 1) :
        DateLE(<<os[i + 1].date.year, month_to_num[os[i + 1].date.month], 0>>,
               <<os[i].date.year, month_to_num[os[i].date.month], 0>>)

\* The true dates of the input, read first to last, never go forward.
ReverseChronological(os, years) ==
    \A i \in 1..(Len(os) - 1) : DateLE(TrueDate(os, years, i + 1), TrueDate(os, years, i))

\* Consecutive orders of the same month are listed with falling days.
SameMonthDaysFall(os) ==
    \A i \in 1..(Len(os) - 1) :
        os[i + 1].date.month = os[i].date.month => os[i + 1].date.day <= os[i].date.day

\* C3 as stated: for every non-empty reverse-chronological input the full
\* dates (year, month, day) that come out are non-increasing first to last.
C3_FullDatesNonIncreasing ==
    (ay_pc = "returned" /\ ay_orders # << >> /\ ReverseChronological(ay_orders, ay_true))
        => NonIncreasing(ay_ret.orders)

\* C3 amended: for every non-empty reverse-chronological input the (year,
\* month) pairs that come out are non-increasing first to last, and the full
\* dates are non-increasing whenever no order has the month of the one
\* before it and a later day.
C3_YearMonthNonIncreasing ==
    (ay_pc = "returned" /\ ay_orders # << >> /\ ReverseChronological(ay_orders, ay_true))
        => /\ ay_ret.raised = NoError
           /\ YearMonthNonIncreasing(ay_ret.orders)
           /\ SameMonthDaysFall(ay_orders) => NonIncreasing(ay_ret.orders)

C3_Witness ==
    /\ ay_pc = "returned"
    /\ Len(ay_orders) = 3
    /\ ay_true = <<DefaultCurrentYear, DefaultCurrentYear - 1, DefaultCurrentYear - 1>>
    /\ SameMonthDaysFall(ay_orders)
    /\ ay_ret.orders[1].date.year = DefaultCurrentYear
    /\ ay_ret.orders[3].date.year = DefaultCurrentYear - 1
    /\ NonIncreasing(ay_ret.orders)

\* ---------------------------------------------------------------------- C4
MonthNumber(os, j) == month_to_num[Title(os[j].date.month)]

AllMonthsKnown(os) ==
    \A i \in DOMAIN os : Title(os[i].date.month) \in Range(MonthAbbrs)

\* Y0: currentYear if the first month is Jan..Jun, currentYear - 1 otherwise.
StartYear(os) ==
    IF MonthNumber(os, 1) <= 6 THEN DefaultCurrentYear ELSE DefaultCurrentYear - 1

\* The positions j in 2..i (1..i counted from 0) whose month number is
\* greater than the one before.
Rises(os, i) == {j \in 2..i : MonthNumber(os, j) > MonthNumber(os, j - 1)}

ExampleDates ==
    << [date |-> [month |-> "Jan", day |-> 5]],
       [date |-> [month |-> "Dec", day |-> 20]],
       [date |-> [month |-> "Dec", day |-> 1]] >>

\* C4: the entry at position i gets the year Y0 minus the number of
\* positions up to i whose month number is greater than the previous one;
\* an empty input comes back unchanged; ["Jan 5", "Dec 20", "Dec 1"] with
\* currentYear 2025 gives the years 2025, 2024, 2024.
C4_YearIsStartMinusRises ==
    ay_pc = "returned" =>
        /\ ay_orders = << >> => ay_ret = [raised |-> NoError, orders |-> << >>]
        /\ (ay_orders # << >> /\ AllMonthsKnown(ay_orders)) =>
              /\ ay_ret.raised = NoError
              /\ Len(ay_ret.orders) = Len(ay_orders)
              /\ \A i \in DOMAIN ay_orders :
                    ay_ret.orders[i].date =
                        [month |-> Title(ay_orders[i].date.month),
                         day |-> ay_orders[i].date.day,
                         year |-> StartYear(ay_orders) - Cardinality(Rises(ay_orders, i))]
        /\ ay_orders = ExampleDates =>
              [i \in 1..3 |-> ay_ret.orders[i].date.year] = <<2025, 2024, 2024>>

C4_Witness ==
    /\ ay_pc = "returned"
    /\ ay_orders = ExampleDates
    /\ [i \in 1..3 |-> ay_ret.orders[i].date.year] = <<2025, 2024, 2024>>

\* ---------------------------------------------------------------------- C5
HasUnknownMonth(os) ==
    \E i \in DOMAIN os : Title(os[i].date.month) \notin Range(MonthAbbrs)

\* The record in progress was fetched and holds a list with an unknown month.
FileHasUnknownMonth ==
    /\ file_content # None
    /\ ParseEnd(file_content) = Processing
    /\ HasUnknownMonth(file_content.data.orders)

HasOp(name) == \E k \in DOMAIN ops : ops[k].op = name

\* C5: when an order's month token is none of the twelve abbreviations,
\* add_years_to_orders raises for the whole call (that order gets no year
\* and nothing is returned to build on), and the record ends failed with no
\* email sent.
C5_UnknownMonthFailsRecord ==
    FileHasUnknownMonth =>
        /\ an_pc \in {"idle", "entry", "frame", "raised"}
        /\ an_ret = None
        /\ an_pc = "raised" =>
              /\ \E k \in DOMAIN ops : ops[k].op = "add_years" /\ ~ops[k].ok
              /\ \E i \in DOMAIN orders :
                    /\ Title(orders[i].date.month) \notin Range(MonthAbbrs)
                    /\ "year" \notin DOMAIN orders[i].date
        /\ ~HasOp("email")
        /\ ~HasOp("publish_spending")
        /\ h_pc \in {"loop", "done"} =>
              /\ outcome[Len(outcome)].end = "failed"
              /\ outcome[Len(outcome)].why = "analysis"

C5_Witness ==
    /\ h_pc = "loop"
    /\ FileHasUnknownMonth
    /\ Len(file_content.data.orders) = 2
    /\ outcome[Len(outcome)].end = "failed"
    /\ "year" \in DOMAIN orders[1].date
    /\ "year" \notin DOMAIN orders[2].date

\* ---------------------------------------------------------------------- C6
\* quantity = amount / price within [1, 10], amount in cents.
QuantityInRange(k) ==
    /\ 100 * comparisons[k].price <= amount
    /\ amount <= 1000 * comparisons[k].price

Candidates == {k \in DOMAIN comparisons : QuantityInRange(k)}

\* Twice the category bonus: 0 experience, 0.5 tech, 1 grocery.
TwiceBonus(k) ==
    CASE comparisons[k].category = "experience" -> 0
      [] comparisons[k].category = "tech" -> 1
      [] comparisons[k].category = "grocery" -> 2

\* (|quantity - 3| + bonus) * 7200000, an integer for every price.
ScoreOf(k) ==
    LET q == amount * (72000 \div comparisons[k].price)
    IN  (IF q >= 21600000 THEN q - 21600000 ELSE 21600000 - q) + TwiceBonus(k) * 3600000

Minimal == {k \in Candidates : \A j \in Candidates : ScoreOf(k) <= ScoreOf(j)}

FirstMinimal == CHOOSE k \in Minimal : \A j \in Minimal : k <= j

\* C6: whenever some catalog item has a quantity in [1, 10], the item
\* returned is the one of least score |quantity - 3| + bonus among the items
\* in range, and of several with that score the first in catalog order.
C6_LeastScoreFirstInCatalogOrder ==
    (cmp_pc = "returned" /\ Candidates # {}) =>
        /\ cmp_ret.description = comparisons[FirstMinimal].name
        /\ cmp_ret.quantity =
              (IF amount < 1000 * comparisons[FirstMinimal].price
               THEN [decimals |-> 1,
                     value |-> RoundHalfEven(10 * amount, 100 * comparisons[FirstMinimal].price)]
               ELSE [decimals |-> 0, value |-> 10])

\* $2400.00: months of groceries (3.0, score 1) and weekend getaways
\* (4.0, score 1) tie; the grocery item comes first in the catalog.
C6_Witness ==
    /\ cmp_pc = "returned"
    /\ amount = 240000
    /\ Cardinality(Minimal) = 2
    /\ cmp_ret.description = "months of groceries"

\* ---------------------------------------------------------------------- C7
\* C7: with no catalog item in range the fallback is returned: amount/4
\* lattes below $100, amount/80 dinners otherwise; and the fallback branch
\* is taken in no other case.
C7_FallbackOnlyWhenNothingInRange ==
    cmp_pc = "returned" =>
        /\ (BestLoop(amount, 1, None) = None) <=> (Candidates = {})
        /\ Candidates = {} =>
              cmp_ret = (IF amount < 10000
                         THEN [quantity |-> [decimals |-> 0, value |-> RoundHalfEven(amount, 400)],
                               description |-> "Starbucks lattes"]
                         ELSE [quantity |-> [decimals |-> 1, value |-> RoundHalfEven(10 * amount, 8000)],
                               description |-> "nice dinners out"])

C7_Witness ==
    /\ cmp_pc = "returned"
    /\ Candidates = {}
    /\ amount > 2000000
    /\ cmp_ret.description = "nice dinners out"

\* ---------------------------------------------------------------------- C8
RECURSIVE SumOfTotals(_)
SumOfTotals(os) ==
    IF os = << >> THEN 0 ELSE Head(os).total.cents + SumOfTotals(Tail(os))

\* C8: over the rows sorted by timestamp ascending the running total never
\* falls and never starts again (each value is the one before plus the
\* row's own total), and the last value is the sum of all totals.
C8_CumulativeIsPrefixSum ==
    df # << >> =>
        /\ \A i \in 1..(Len(df) - 1) :
              /\ TsLE(df[i].ts, df[i + 1].ts)
              /\ df[i].cum_value <= df[i + 1].cum_value
              /\ df[i + 1].cum_value = df[i].cum_value + df[i + 1].total_value
        /\ df[1].cum_value = df[1].total_value
        /\ df[Len(df)].cum_value = SumOfTotals(orders)

C8_Witness ==
    /\ an_pc = "kpis"
    /\ Len(df) = 3
    /\ df[1].restaurantName = orders[3].restaurantName
    /\ df[1].cum_value < df[2].cum_value
    /\ df[2].cum_value < df[3].cum_value

\* ---------------------------------------------------------------------- C9
\* C9: analyze_orders with an empty list returns the "no orders" document
\* without raising, before any year inference, statistic or chart publish;
\* no other list gets that document.
C9_EmptyListShortCircuits ==
    /\ (orders = << >> /\ an_pc \notin {"idle", "entry"}) =>
          /\ an_pc = "returned"
          /\ an_ret = NoOrdersDoc
          /\ ops = << >>
          /\ df = << >> /\ kpi = None
          /\ spending_chart_url = None /\ cumulative_chart_url = None
    /\ (orders = << >> /\ an_pc = "entry") => ENABLED AnalyzeEntry
    /\ an_ret = NoOrdersDoc => orders = << >>

C9_Witness ==
    /\ orders = << >>
    /\ an_pc = "returned"
    /\ an_ret = NoOrdersDoc

\* --------------------------------------------------------------------- C10
PublishFailed(name) == \E k \in DOMAIN ops : ops[k].op = name /\ ~ops[k].ok
PublishDone(name) == \E k \in DOMAIN ops : ops[k].op = name

KpiCards ==
    {"total_spent", "avg_order_value", "total_orders", "canceled_orders", "top_hour",
     "top_day", "top_restaurant", "top_restaurant_count", "largest_order", "comparison"}

\* C10: a failed publish becomes a null URL and never leaves
\* upload_chart_to_s3: whatever the two publishes do, analyze_orders goes on
\* to return a report with every KPI card and the order table, and a chart
\* slot shows its fallback exactly when that chart's own publish failed.
C10_PublishFailureOnlyDegradesItsSlot ==
    /\ PublishDone("publish_spending") =>
          /\ an_pc \in {"publish_cumulative", "compose", "returned"}
          /\ (spending_chart_url = None) <=> PublishFailed("publish_spending")
    /\ PublishDone("publish_cumulative") =>
          /\ an_pc \in {"compose", "returned"}
          /\ (cumulative_chart_url = None) <=> PublishFailed("publish_cumulative")
    /\ an_pc \in {"publish_spending", "publish_cumulative", "compose"} => ENABLED AnalyzeStep
    /\ (an_pc = "returned" /\ orders # << >>) =>
          /\ an_ret.kind = "report"
          /\ DOMAIN an_ret.cards = KpiCards
          /\ Len(an_ret.order_table) = Len(orders)
          /\ (an_ret.spending_slot.kind # "img") <=> PublishFailed("publish_spending")
          /\ (an_ret.cumulative_slot.kind # "img") <=> PublishFailed("publish_cumulative")

C10_Witness ==
    /\ an_pc = "returned"
    /\ orders # << >>
    /\ PublishFailed("publish_spending")
    /\ ~PublishFailed("publish_cumulative")
    /\ an_ret.spending_slot.kind = "monthly_table"
    /\ an_ret.cumulative_slot.kind = "img"

\* --------------------------------------------------------------------- C11
\* The key as the handler sees it ends in ".json", whatever the case.
HasJsonExtension(key) ==
    LET n == Len(key)
    IN  /\ n >= 5
        /\ key[n - 4] = "."
        /\ key[n - 3] \in {"j", "J"}
        /\ key[n - 2] \in {"s", "S"}
        /\ key[n - 1] \in {"o", "O"}
        /\ key[n] \in {"n", "N"}

\* The keys of the event as the handler sees them, decoded.
DecodedKeys == [k \in Keys |-> unquote_plus(k)]

\* The keys whose decoded form has the extension.
KeysWithExtension == {k \in Keys : HasJsonExtension(DecodedKeys[k])}

\* Record i is an S3 record with bucket and key whose decoded key lacks the
\* extension.
WrongExtension(i) ==
    /\ records[i].eventSource = "aws:s3"
    /\ records[i].has_s3
    /\ records[i].key \notin KeysWithExtension

\* The file fetched for the record in progress parsed to an empty order list.
FetchedEmptyList ==
    /\ file_content # None
    /\ file_content.valid
    /\ file_content.data.sized
    /\ \/ file_content.data.type = "list"
       \/ file_content.data.type = "dict" /\ file_content.data.has_orders
    /\ file_content.data.orders = << >>

NoAnalysisNoEmail ==
    /\ an_pc = "idle" /\ an_ret = None
    /\ \A k \in DOMAIN ops : ops[k].op \in {"fetch", "parse"}

\* C11: a record whose decoded key lacks the .json extension (whatever the
\* case), or whose fetched order list is empty, ends skipped and not as an
\* error, with no analysis, no chart publish and no email; the handler goes
\* on with the next record; the wrong extension is found before any read of
\* the object store, and no record with the extension is skipped for it.
C11_WrongExtensionOrEmptyListIsSkipped ==
    /\ \A i \in DOMAIN records :
          /\ WrongExtension(i) <=> outcome[i] = Ended("skipped", "not_json", "info")
          /\ (WrongExtension(i) /\ i = Len(records)) =>
                /\ ops = << >> /\ file_content = None
                /\ NoAnalysisNoEmail
                /\ h_pc \in {"loop", "done"}
                /\ h_pc = "done" => response = Completed
    /\ (FetchedEmptyList /\ h_pc # "parse") =>
          /\ outcome[Len(outcome)] = Ended("skipped", "empty", "warning")
          /\ NoAnalysisNoEmail
          /\ h_pc \in {"loop", "done"}
          /\ h_pc = "done" => response = Completed
    /\ (h_pc = "loop" /\ Len(records) < n_records) => ENABLED BeginRecord
    /\ (h_pc = "loop" /\ Len(records) = n_records) => ENABLED ReturnOK

\* A batch of a .csv record and a file with an empty list, both skipped, the
\* handler returned 200.
C11_Witness ==
    /\ h_pc = "done"
    /\ Len(records) = 2
    /\ WrongExtension(1)
    /\ outcome[1].end = "skipped"
    /\ FetchedEmptyList
    /\ outcome[2] = Ended("skipped", "empty", "warning")
    /\ response = Completed

\* --------------------------------------------------------------------- C12
\* The record in progress was fetched and its text parsed as JSON.
FetchedAndParsed == file_content # None /\ file_content.valid /\ h_pc # "parse"

\* The parsed value is a bare array or an object with an `orders` field.
AcceptedShape ==
    \/ file_content.data.type = "list"
    \/ file_content.data.type = "dict" /\ file_content.data.has_orders

\* C12: once a file is fetched and parsed, the orders are the bare array or
\* the `orders` field of the object, and analyze_orders is entered with
\* them; any other shape is logged as an error for that record, which ends
\* with no analysis and no email, and the loop goes on.
C12_OrdersFromArrayOrOrdersField ==
    FetchedAndParsed =>
        /\ AcceptedShape <=> outcome[Len(outcome)].why # "json_shape"
        /\ (AcceptedShape /\ h_pc = "analyze" /\ an_pc = "entry") =>
              orders = file_content.data.orders
        /\ (AcceptedShape /\ file_content.data.sized /\ file_content.data.orders # << >>) =>
              \/ h_pc = "analyze"
              \/ \E k \in DOMAIN ops : ops[k].op \in {"add_years", "email"}
        /\ ~AcceptedShape =>
              /\ outcome[Len(outcome)] = Ended("failed", "json_shape", "error")
              /\ NoAnalysisNoEmail
              /\ h_pc \in {"loop", "done"}
              /\ (h_pc = "loop" /\ Len(records) < n_records) => ENABLED BeginRecord
              /\ h_pc = "done" => response = Completed

\* An object without `orders` first, then a file whose object holds the
\* orders, analysed and sent.
C12_Witness ==
    /\ h_pc = "done"
    /\ Len(records) = 2
    /\ outcome[1] = Ended("failed", "json_shape", "error")
    /\ file_content # None
    /\ file_content.valid
    /\ file_content.data.type = "dict"
    /\ outcome[2].end = "sent"
    /\ response = Completed

\* --------------------------------------------------------------------- C13
\* The places of the '/' in a key, with one before its start and one after
\* its end.
Cuts(key) == {0, Len(key) + 1} \cup {i \in DOMAIN key : key[i] = "/"}

\* The segments of a key: what lies between two neighbouring cuts.
SegmentBounds(key) ==
    {b \in Cuts(key) \X Cuts(key) :
        /\ b[1] < b[2]
        /\ \A c \in Cuts(key) : ~(b[1] < c /\ c < b[2])}

SegmentOf(key, b) == SubSeq(key, b[1] + 1, b[2] - 1)

HasAtAndDot(seg) ==
    /\ \E i \in DOMAIN seg : seg[i] = "@"
    /\ \E i \in DOMAIN seg : seg[i] = "."

\* C13: extract_user_email_from_key returns for every key: the first
\* '/'-separated segment holding both '@' and '.'; with no such segment the
\* second-to-last segment when there is more than one; else 'unknown'.
C13_ExtractNeverRaises ==
    /\ ex_pc = "call" => ENABLED CallExtract
    /\ ex_pc = "returned" =>
        LET bounds == SegmentBounds(ex_key)
            hits == {b \in bounds : HasAtAndDot(SegmentOf(ex_key, b))}
        IN  /\ hits # {} =>
                  \E b \in hits :
                      /\ \A c \in hits : b[1] <= c[1]
                      /\ ex_ret = SegmentOf(ex_key, b)
            /\ (hits = {} /\ Cardinality(bounds) > 1) =>
                  \E b \in bounds :
                      /\ Cardinality({c \in bounds : c[1] > b[1]}) = 1
                      /\ ex_ret = SegmentOf(ex_key, b)
            /\ (hits = {} /\ Cardinality(bounds) = 1) => ex_ret = Unknown

\* "a/./@": three segments, none with both characters; the middle one.
C13_Witness ==
    /\ ex_pc = "returned"
    /\ ex_key = <<"a", "/", ".", "/", "@">>
    /\ ex_ret = <<".">>

\* --------------------------------------------------------------------- C14
\* The place of a step in the order fetch, parse, analyze, publish spending
\* chart, publish cumulative chart, email (year inference, statistics and
\* the composition of the report are parts of analyze).
StepRank(op) ==
    CASE op = "fetch" -> 1
      [] op = "parse" -> 2
      [] op = "add_years" -> 3
      [] op = "stats" -> 4
      [] op = "publish_spending" -> 5
      [] op = "publish_cumulative" -> 6
      [] op = "report" -> 7
      [] op = "email" -> 8

\* C14: the records of a batch are processed one after the other in event
\* order: the steps of a record come in the order fetch, parse, analyze,
\* publish spending chart, publish cumulative chart, email; every step taken
\* belongs to the record read last, every record read before it has reached
\* its terminal outcome, and a record that has reached its own takes no
\* further step.
C14_RecordsOneAfterTheOther ==
    /\ Len(outcome) = Len(records)
    /\ \A i \in 1..(Len(outcome) - 1) : outcome[i].end \in Terminal
    /\ \A k \in DOMAIN ops : ops[k].rec = Len(records)
    /\ \A k \in 1..(Len(ops) - 1) : StepRank(ops[k].op) < StepRank(ops[k + 1].op)
    /\ \A k \in DOMAIN ops :
          StepRank(ops[k].op) > 1 => \E j \in DOMAIN ops : j < k /\ ops[j].op = "fetch"
    /\ (\E k \in DOMAIN ops : ops[k].op = "email") =>
          \A name \in {"fetch", "parse", "add_years", "stats", "publish_spending",
                        "publish_cumulative", "report"} : HasOp(name)
    /\ (outcome # << >> /\ outcome[Len(outcome)].end \in Terminal) => h_pc \in {"loop", "done"}
    /\ (outcome # << >> /\ outcome[Len(outcome)].end = "processing") =>
          h_pc \in {"fetch", "parse", "analyze"}

\* The second record of a batch has gone through every step after the first
\* one was sent.
C14_Witness ==
    /\ Len(records) = 2
    /\ outcome[1].end = "sent"
    /\ outcome[2].end = "sent"
    /\ [k \in DOMAIN ops |-> ops[k].op] =
          <<"fetch", "parse", "add_years", "stats", "publish_spending",
            "publish_cumulative", "report", "email">>

\* --------------------------------------------------------------------- C15
Attempts(name) == Cardinality({k \in DOMAIN ops : ops[k].op = name})

Failed(name) == \E k \in DOMAIN ops : ops[k].op = name /\ ~ops[k].ok

\* C15: nothing is retried: for each record the object-store read, each
\* chart publish and the email send are attempted at most once, failed or
\* not; after a failed read the record is over; a failed publish is followed
\* by the next step, not by the same one; a failed email send leaves the
\* record failed, the handler goes on and still returns 200.
C15_NothingIsRetried ==
    /\ \A name \in {"fetch", "publish_spending", "publish_cumulative", "email"} :
          Attempts(name) <= 1
    /\ Failed("fetch") =>
          /\ Len(ops) = 1
          /\ outcome[Len(outcome)].end = "failed"
          /\ h_pc \in {"loop", "done"}
    /\ Failed("publish_spending") => an_pc \in {"publish_cumulative", "compose", "returned"}
    /\ Failed("publish_cumulative") => an_pc \in {"compose", "returned"}
    /\ Failed("email") =>
          /\ ops[Len(ops)].op = "email"
          /\ outcome[Len(outcome)] = Ended("failed", "email", "error")
          /\ h_pc \in {"loop", "done"}
          /\ (h_pc = "loop" /\ Len(records) < n_records) => ENABLED BeginRecord
          /\ (h_pc = "loop" /\ Len(records) = n_records) => ENABLED ReturnOK
          /\ h_pc = "done" => response = Completed

\* Both publishes and the email send of the only record failed, each tried
\* once, and the handler returned 200.
C15_Witness ==
    /\ h_pc = "done"
    /\ Len(records) = 1
    /\ Failed("publish_spending") /\ Failed("publish_cumulative") /\ Failed("email")
    /\ Attempts("publish_spending") = 1
    /\ Attempts("publish_cumulative") = 1
    /\ Attempts("email") = 1
    /\ outcome[1].end = "failed"
    /\ response.statusCode = 200

\* --------------------------------------------------------------------- C16
\* The calls of upload_chart_to_s3 so far, and those whose put went through.
Publishes == {k \in DOMAIN ops : ops[k].op \in {"publish_spending", "publish_cumulative"}}
Puts == {k \in Publishes : ops[k].ok}

\* The run a step belongs to: one more than the reports returned before it.
RunOf(k) == 1 + Cardinality({j \in 1..(k - 1) : ops[j].op = "report"})

\* The put whose object the bucket holds under a key: the last one.
ObjectAt(key) ==
    CHOOSE k \in Puts : ops[k].key = key /\ \A j \in Puts : ops[j].key = key => j <= k

UrlOf(key) == [bucket |-> ChartsBucket, key |-> key]

\* The report run r returned shows an image from this URL.
InReportOf(r, url) ==
    \E k \in DOMAIN ops : ops[k].op = "report" /\ RunOf(k) = r /\ url \in ops[k].srcs

RECURSIVE SumCents(_)
SumCents(S) ==
    IF S = {}
    THEN 0
    ELSE LET i == CHOOSE x \in S : TRUE
         IN  orders[i].total.cents + SumCents(S \ {i})

\* The orders of a calendar month, canceled or not.
OrdersIn(period) ==
    {i \in DOMAIN orders :
        <<orders[i].date.year, month_to_num[orders[i].date.month]>> = period}

AllPeriods ==
    {<<orders[i].date.year, month_to_num[orders[i].date.month]>> : i \in DOMAIN orders}

\* C17: no aggregate leaves the canceled orders out: the order count, the
\* total spend, the average, the largest order, the monthly buckets and the
\* cumulative series are taken over all orders, canceled or not, and the
\* canceled flag shows only in the count of canceled orders.
C17_CanceledOrdersCountEverywhere ==
    /\ df # << >> =>
          /\ Len(df) = Len(orders)
          /\ df[Len(df)].cum_value = SumCents(DOMAIN orders)
          /\ {monthly_spend[k].period : k \in DOMAIN monthly_spend} = AllPeriods
          /\ \A k \in DOMAIN monthly_spend :
                monthly_spend[k].total_value = SumCents(OrdersIn(monthly_spend[k].period))
    /\ kpi # None =>
          /\ kpi.total_orders = Len(orders)
          /\ kpi.total_spent = SumCents(DOMAIN orders)
          /\ kpi.avg_order_value = [num |-> SumCents(DOMAIN orders), den |-> Len(orders)]
          /\ \A i \in DOMAIN orders : orders[i].total.cents <= kpi.largest_order.total_value
          /\ \E i \in DOMAIN orders : orders[i].total.cents = kpi.largest_order.total_value
          /\ kpi.canceled_orders = Cardinality({i \in DOMAIN orders : orders[i].canceled})

\* A canceled order of $10.00 next to a smaller live one: it is the largest
\* order and its total is part of the total spend.
C17_Witness ==
    /\ an_pc = "returned"
    /\ Len(orders) = 2
    /\ kpi.canceled_orders = 1
    /\ \E i \in DOMAIN orders :
          /\ orders[i].canceled
          /\ orders[i].total.cents = kpi.largest_order.total_value
          /\ orders[i].total.cents > 0
          /\ kpi.total_spent > orders[i].total.cents

\* --------------------------------------------------------------------- C18
\* The segments of a key that hold both '@' and '.'.
EmailSegments(key) == {b \in SegmentBounds(key) : HasAtAndDot(SegmentOf(key, b))}

\* The identity of a key: its first segment with both characters; without
\* one the second-to-last segment, or 'unknown' for a key of one segment.
Identity(key) ==
    IF EmailSegments(key) # {}
    THEN SegmentOf(key, CHOOSE b \in EmailSegments(key) :
                            \A c \in EmailSegments(key) : b[1] <= c[1])
    ELSE IF Cardinality(SegmentBounds(key)) > 1
         THEN SegmentOf(key, CHOOSE b \in SegmentBounds(key) :
                                 Cardinality({c \in SegmentBounds(key) : c[1] > b[1]}) = 1)
         ELSE <<"u", "n", "k", "n", "o", "w", "n">>

\* The decoded key of the record read last.
LastKey == DecodedKeys[records[Len(records)].key]

\* The identity of each key of the event, and the keys that name no email
\* address.
KeyIdentity == [k \in Keys |-> Identity(DecodedKeys[k])]
UnidentifiedKeys == {k \in Keys : EmailSegments(DecodedKeys[k]) = {}}

\* The record read last is a .json record whose key names no email address.
LastIsUnidentifiedJson ==
    /\ records # << >>
    /\ records[Len(records)].eventSource = "aws:s3"
    /\ records[Len(records)].has_s3
    /\ records[Len(records)].key \in KeysWithExtension
    /\ records[Len(records)].key \in UnidentifiedKeys

\* C18: a .json record whose key has no segment with both '@' and '.' is
\* not skipped for that: it is fetched, a good file is analysed and the
\* email sink is invoked once, with the fallback identity as recipient; and
\* whatever the key, the recipient handed to the sink is the identity of the
\* key of the record in progress.
C18_RecipientIsIdentityOfKey ==
    /\ LastIsUnidentifiedJson =>
          /\ h_pc = "fetch" \/ HasOp("fetch")
          /\ h_pc = "fetch" => ENABLED GetObject
          /\ (h_pc = "analyze" /\ an_pc = "returned") => ENABLED SendEmail
          /\ outcome[Len(outcome)].end = "sent" => HasOp("report")
          /\ outcome[Len(outcome)].end = "skipped" => FetchedEmptyList
    /\ \A k \in DOMAIN ops :
          ops[k].op = "email" =>
              /\ ops[k].to = KeyIdentity[records[Len(records)].key]
              /\ ops[k].rec = Len(records)
              /\ ops[k].content = an_ret
              /\ \A j \in DOMAIN ops : ops[j].op = "email" => j = k

\* The second record's key is "o.json": its report went to 'unknown'.
C18_Witness ==
    /\ Len(records) = 2
    /\ LastIsUnidentifiedJson
    /\ LastKey = <<"o", ".", "j", "s", "o", "n">>
    /\ outcome[2].end = "sent"
    /\ ops[Len(ops)].op = "email"
    /\ ops[Len(ops)].to = <<"u", "n", "k", "n", "o", "w", "n">>

\* --------------------------------------------------------------------- C19
\* Item k is the one returned, with its quantity amount / price formatted.
ReturnedItem(k) ==
    /\ cmp_ret.description = comparisons[k].name
    /\ cmp_ret.quantity \in
          {[decimals |-> 1, value |-> RoundHalfEven(10 * amount, 100 * comparisons[k].price)],
           [decimals |-> 0, value |-> RoundHalfEven(amount, 100 * comparisons[k].price)]}

\* C19: from $6 to $20,000 some catalog item always has a quantity in
\* [1, 10], and get_best_comparison returns such an item, never the
\* fallback; the fallback is reached only below $6, where it is the lattes
\* branch, and above $20,000, where it is the dinners branch.
C19_CatalogCoversSixToTwentyThousand ==
    cmp_pc = "returned" =>
        /\ (600 <= amount /\ amount <= 2000000) =>
              /\ \E k \in DOMAIN comparisons :
                    100 * comparisons[k].price <= amount /\ amount <= 1000 * comparisons[k].price
              /\ BestLoop(amount, 1, None) # None
              /\ \E k \in DOMAIN comparisons :
                    /\ 100 * comparisons[k].price <= amount
                    /\ amount <= 1000 * comparisons[k].price
                    /\ ReturnedItem(k)
        /\ amount < 600 =>
              /\ BestLoop(amount, 1, None) = None
              /\ cmp_ret.description = "Starbucks lattes"
              /\ cmp_ret.quantity = [decimals |-> 0, value |-> RoundHalfEven(amount, 400)]
        /\ amount > 2000000 =>
              /\ BestLoop(amount, 1, None) = None
              /\ cmp_ret.description = "nice dinners out"
              /\ cmp_ret.quantity = [decimals |-> 1, value |-> RoundHalfEven(10 * amount, 8000)]

\* $20,000.00 is still a catalog item (10 week-long vacations); a cent more
\* is not.
C19_Witness ==
    /\ cmp_pc = "returned"
    /\ amount = 2000000
    /\ cmp_ret.description = "week-long vacations"
    /\ cmp_ret.quantity = [decimals |-> 0, value |-> 10]

====
